---- MODULE Spec2Model ----
(***************************************************************************)
(* Room registry, team balancer and session gateway of the dodgeball       *)
(* multiplayer relay: server/RoomManager.js and server/server.js.          *)
(*                                                                         *)
(* Node runs every socket.io handler to completion on one thread, so each  *)
(* handler is one atomic action.                                           *)
(*                                                                         *)
(* JavaScript values:                                                      *)
(*   - an optional value is a sequence of length 0 (undefined / NaN) or 1; *)
(*   - a JS object used as a map is the sequence of its values in          *)
(*     Object.keys order (array-index keys ascending, then the other keys  *)
(*     in insertion order);                                                *)
(*   - a room code is the sequence of its base-36 digits (0..35);          *)
(*   - a socket id is a number standing for socket.io's 20-character id,   *)
(*     which is never an array-index key.                                  *)
(***************************************************************************)
EXTENDS Integers, Sequences, FiniteSets, TLC

\* ------------------------------------------------------------------ bounds
MaxSockets == 3
MaxTeamSize == 2
MaxEvents == 4

SocketIds == 1..MaxSockets

\* ------------------------------------------------------------- JS helpers
Undefined == <<>>

Some(x) == <<x>>

\* truthiness of an optional number: undefined, NaN and 0 are falsy
TruthyNum(v) == v # <<>> /\ v[1] # 0

\* truthiness of an optional string: undefined and "" are falsy
TruthyStr(v) == v # <<>> /\ v[1] # ""

\* parseInt of undefined is NaN; an integer prints and parses to itself
parseInt(v) == IF v = Undefined THEN <<>> ELSE v

Min(a, b) == IF a <= b THEN a ELSE b

\* ------------------------------------------------------------- room codes
\* fraction digits of Math.random().toString(36), i.e. what follows "0.":
\* "0.k7qz31" and "0.12"
RandomPool == << <<20, 7, 26, 35, 3, 1>>, <<1, 2>> >>

\* a generator that keeps returning the first value
RepeatPool == << RandomPool[1] >>

\* .substring(2, 6).toUpperCase(): at most the first four digits
generateRoomId(digits) == SubSeq(digits, 1, Min(4, Len(digits)))

RoomCodes(pool) == {generateRoomId(pool[i]) : i \in 1..Len(pool)}

\* a key is an array index when it is a canonical decimal number
IsArrayIndex(code) ==
  /\ Len(code) >= 1
  /\ \A i \in 1..Len(code) : code[i] < 10
  /\ (Len(code) > 1 => code[1] # 0)

RECURSIVE IndexValue(_)
IndexValue(code) ==
  IF code = <<>> THEN 0
  ELSE 10 * IndexValue(SubSeq(code, 1, Len(code) - 1)) + code[Len(code)]

\* ---------------------------------------------------- objects used as maps
Keys(obj) == [i \in 1..Len(obj) |-> obj[i].id]

KeySet(obj) == {obj[i].id : i \in 1..Len(obj)}

Has(obj, k) == k \in KeySet(obj)

Get(obj, k) == obj[CHOOSE i \in 1..Len(obj) : obj[i].id = k]

Delete(obj, k) == SelectSeq(obj, LAMBDA e : e.id # k)

\* obj[k] = v for a key that is never an array index (socket ids)
PutPlayer(obj, v) ==
  IF Has(obj, v.id)
  THEN [i \in 1..Len(obj) |-> IF obj[i].id = v.id THEN v ELSE obj[i]]
  ELSE Append(obj, v)

\* this.rooms[k] = v: an existing key keeps its place; a new array-index key
\* goes among the index keys in ascending order; any other key goes last
PutRoom(obj, v) ==
  IF Has(obj, v.id)
  THEN [i \in 1..Len(obj) |-> IF obj[i].id = v.id THEN v ELSE obj[i]]
  ELSE IF IsArrayIndex(v.id)
  THEN LET before == {i \in 1..Len(obj) :
                        /\ IsArrayIndex(obj[i].id)
                        /\ IndexValue(obj[i].id) < IndexValue(v.id)}
           n == Cardinality(before)
       IN SubSeq(obj, 1, n) \o <<v>> \o SubSeq(obj, n + 1, Len(obj))
  ELSE Append(obj, v)

\* --------------------------------------------------------------- inputs
\* no team size, sizes below 1, the smallest size and the largest in use
TeamSizeInputs ==
  {Undefined, Some(-1), Some(0), Some(1), Some(MaxTeamSize)}

MapInputs == {Undefined, Some("gladiator")}

SettingsInputs(maps) == [teamSize : TeamSizeInputs, map : maps]

TeamIdInputs == {Undefined, Some("BLUE"), Some("RED")}

\* teamId values a client can send: the two the lobby buttons send, none, and
\* a string that names no team
TeamLabelInputs == TeamIdInputs \cup {Some("GREEN")}

\* payloads of the host's round_state and player_hit messages
RoundStateInputs == {[type |-> "countdown"], [type |-> "round_end"]}

PlayerHitInputs == {[targetId |-> s] : s \in SocketIds}

\* payloads of a client's deflect_attempt; the second carries a playerId of
\* its own
DeflectInputs ==
  {[facingDirection |-> "left"],
   [facingDirection |-> "left", playerId |-> 1]}

\* payloads of player_move (the second carries an id of its own),
\* missile_update and missile_deflected
MoveInputs == {[rotation |-> "north"], [rotation |-> "north", id |-> 1]}

MissileInputs == {[target |-> s] : s \in SocketIds}

DeflectedInputs == {[direction |-> "left"]}

\* GAME.ROUNDS_TO_WIN
ROUNDS_TO_WIN == 10

\* the scores a host's round_end message can carry for either team
ScoreInputs == {0, ROUNDS_TO_WIN - 1, ROUNDS_TO_WIN}

\* round_state payloads of type round_end, as RoundManager.endRound sends them
RoundEndInputs ==
  [type : {"round_end"}, winner : {"BLUE", "RED"},
   scores : [blue : ScoreInputs, red : ScoreInputs]]

\* ------------------------------------------------------------------ state
VARIABLES
  rooms,    \* RoomManager.rooms
  sockets,  \* io.sockets.sockets: ids of the connected sockets
  closed,   \* ids of the sockets that have disconnected (ids are not reused)
  subs,     \* socket.io rooms each socket has joined with socket.join
  out,      \* messages sent by the last handler, in order
  last,     \* the event the last handler was run for, with its argument
  handled,  \* number of client events handled so far
  gsm       \* the fields of a client's GameStateManager

vars == <<rooms, sockets, closed, subs, out, last, handled, gsm>>

\* ----------------------------------------------------------- RoomManager
Count(ps, team) == Len(SelectSeq(ps, LAMBDA p : p.team = team))

\* addPlayerToRoom choosing RED when the teams are level
addPlayerToRoomRedOnTie(rs, roomId, playerId, isHost) ==
  LET room == Get(rs, roomId)
      blueCount == Count(room.players, "BLUE")
      redCount == Count(room.players, "RED")
      team == IF blueCount < redCount THEN "BLUE" ELSE "RED"
      player == [id |-> playerId, team |-> team, isHost |-> isHost]
  IN PutRoom(rs, [room EXCEPT !.players = PutPlayer(room.players, player)])

addPlayerToRoom(rs, roomId, playerId, isHost) ==
  LET room == Get(rs, roomId)
      blueCount == Count(room.players, "BLUE")
      redCount == Count(room.players, "RED")
      team == IF blueCount <= redCount THEN "BLUE" ELSE "RED"
      player == [id |-> playerId, team |-> team, isHost |-> isHost]
  IN PutRoom(rs, [room EXCEPT !.players = PutPlayer(room.players, player)])

createRoom(rs, roomId, hostId, settings) ==
  LET teamSize == IF TruthyNum(settings.teamSize)
                  THEN settings.teamSize[1] ELSE 1
      room == [id |-> roomId,
               hostId |-> hostId,
               players |-> <<>>,
               gameState |-> "LOBBY",
               settings |-> [maxPlayers |-> teamSize * 2,
                             teamSize |-> teamSize,
                             map |-> IF TruthyStr(settings.map)
                                     THEN settings.map[1] ELSE "orbital"]]
  IN addPlayerToRoom(PutRoom(rs, room), roomId, hostId, TRUE)

\* the two while loops of rebalanceTeams over the arrays blue and red, which
\* hold the players of each team in Object.values order; pop takes the last
\* the first loop of rebalanceTeams filling red one past teamSize
RECURSIVE moveBlueOnePast(_, _, _, _)
moveBlueOnePast(ps, blue, red, teamSize) ==
  IF Len(blue) > teamSize /\ Len(red) <= teamSize
  THEN LET moved == blue[Len(blue)]
       IN moveBlueOnePast(
            PutPlayer(ps, [Get(ps, moved) EXCEPT !.team = "RED"]),
            SubSeq(blue, 1, Len(blue) - 1), Append(red, moved), teamSize)
  ELSE [players |-> ps, blue |-> blue, red |-> red]

RECURSIVE moveBlue(_, _, _, _)
moveBlue(ps, blue, red, teamSize) ==
  IF Len(blue) > teamSize /\ Len(red) < teamSize
  THEN LET moved == blue[Len(blue)]
       IN moveBlue(PutPlayer(ps, [Get(ps, moved) EXCEPT !.team = "RED"]),
                   SubSeq(blue, 1, Len(blue) - 1), Append(red, moved),
                   teamSize)
  ELSE [players |-> ps, blue |-> blue, red |-> red]

RECURSIVE moveRed(_, _, _, _)
moveRed(ps, blue, red, teamSize) ==
  IF Len(red) > teamSize /\ Len(blue) < teamSize
  THEN LET moved == red[Len(red)]
       IN moveRed(PutPlayer(ps, [Get(ps, moved) EXCEPT !.team = "BLUE"]),
                  Append(blue, moved), SubSeq(red, 1, Len(red) - 1),
                  teamSize)
  ELSE [players |-> ps, blue |-> blue, red |-> red]

\* rebalanceTeams moving nobody
rebalanceTeamsMovesNobody(room) == room.players

\* the players of the room after rebalanceTeams(room)
rebalanceTeams(room) ==
  LET teamSize == room.settings.teamSize
      blue == Keys(SelectSeq(room.players, LAMBDA p : p.team = "BLUE"))
      red == Keys(SelectSeq(room.players, LAMBDA p : p.team = "RED"))
      first == moveBlue(room.players, blue, red, teamSize)
  IN moveRed(first.players, first.blue, first.red, teamSize).players

\* updateSettings falling back to the default map instead of the room's
updateSettingsDefaultMap(rs, roomId, settings) ==
  IF ~Has(rs, roomId) THEN rs
  ELSE LET room == Get(rs, roomId)
           parsed == parseInt(settings.teamSize)
           newTeamSize == IF TruthyNum(parsed)
                          THEN parsed[1] ELSE room.settings.teamSize
           updated == [room EXCEPT !.settings =
                         [maxPlayers |-> newTeamSize * 2,
                          teamSize |-> newTeamSize,
                          map |-> IF TruthyStr(settings.map)
                                  THEN settings.map[1]
                                  ELSE "orbital"]]
       IN PutRoom(rs, [updated EXCEPT !.players = rebalanceTeams(updated)])

\* updateSettings without the recomputation of maxPlayers
updateSettingsKeepsMax(rs, roomId, settings) ==
  IF ~Has(rs, roomId) THEN rs
  ELSE LET room == Get(rs, roomId)
           parsed == parseInt(settings.teamSize)
           newTeamSize == IF TruthyNum(parsed)
                          THEN parsed[1] ELSE room.settings.teamSize
           updated == [room EXCEPT !.settings =
                         [maxPlayers |-> room.settings.maxPlayers,
                          teamSize |-> newTeamSize,
                          map |-> IF TruthyStr(settings.map)
                                  THEN settings.map[1]
                                  ELSE room.settings.map]]
       IN PutRoom(rs, [updated EXCEPT !.players = rebalanceTeams(updated)])

updateSettings(rs, roomId, settings) ==
  IF ~Has(rs, roomId) THEN rs
  ELSE LET room == Get(rs, roomId)
           parsed == parseInt(settings.teamSize)
           newTeamSize == IF TruthyNum(parsed)
                          THEN parsed[1] ELSE room.settings.teamSize
           updated == [room EXCEPT !.settings =
                         [maxPlayers |-> newTeamSize * 2,
                          teamSize |-> newTeamSize,
                          map |-> IF TruthyStr(settings.map)
                                  THEN settings.map[1]
                                  ELSE room.settings.map]]
       IN PutRoom(rs, [updated EXCEPT !.players = rebalanceTeams(updated)])

\* joinRoom taking a missing room for one whose game has started
joinRoomErrorMissingAsStarted(rs, roomId) ==
  IF ~Has(rs, roomId) THEN Some("Game already started")
  ELSE LET room == Get(rs, roomId)
           playerCount == Len(room.players)
       IN IF room.gameState # "LOBBY" THEN Some("Game already started")
          ELSE IF playerCount >= room.settings.maxPlayers
          THEN Some("Room full")
          ELSE Undefined

\* joinRoom without the check of the player count
joinRoomErrorNeverFull(rs, roomId) ==
  IF ~Has(rs, roomId) THEN Some("Room not found")
  ELSE LET room == Get(rs, roomId)
       IN IF room.gameState # "LOBBY" THEN Some("Game already started")
          ELSE Undefined

\* joinRoom without the check of gameState
joinRoomErrorAnyState(rs, roomId) ==
  IF ~Has(rs, roomId) THEN Some("Room not found")
  ELSE LET room == Get(rs, roomId)
           playerCount == Len(room.players)
       IN IF playerCount >= room.settings.maxPlayers
          THEN Some("Room full")
          ELSE Undefined

\* result.error, or <<>> on success
joinRoomError(rs, roomId) ==
  IF ~Has(rs, roomId) THEN Some("Room not found")
  ELSE LET room == Get(rs, roomId)
           playerCount == Len(room.players)
       IN IF room.gameState # "LOBBY" THEN Some("Game already started")
          ELSE IF playerCount >= room.settings.maxPlayers
          THEN Some("Room full")
          ELSE Undefined

joinRoom(rs, roomId, playerId) ==
  IF joinRoomError(rs, roomId) # Undefined THEN rs
  ELSE addPlayerToRoom(rs, roomId, playerId, FALSE)

\* the team switchTeam tries to move the player to
switchTeamTarget(player, targetTeam) ==
  IF TruthyStr(targetTeam) THEN targetTeam[1]
  ELSE IF player.team = "BLUE" THEN "RED" ELSE "BLUE"

\* switchTeam without the check of the new team's size
switchTeamResultIgnoresFull(rs, roomId, playerId, targetTeam) ==
  IF ~Has(rs, roomId) \/ ~Has(Get(rs, roomId).players, playerId)
  THEN "undefined"
  ELSE "success"

\* switchTeam without the early return for a player already on the team
switchTeamResultAlwaysCounts(rs, roomId, playerId, targetTeam) ==
  IF ~Has(rs, roomId) \/ ~Has(Get(rs, roomId).players, playerId)
  THEN "undefined"
  ELSE LET room == Get(rs, roomId)
           player == Get(room.players, playerId)
           newTeam == switchTeamTarget(player, targetTeam)
           teamCount == Count(room.players, newTeam)
       IN IF teamCount >= room.settings.teamSize THEN "Team full"
          ELSE "success"

\* "undefined" (no return value), "success" or "Team full"
switchTeamResult(rs, roomId, playerId, targetTeam) ==
  IF ~Has(rs, roomId) \/ ~Has(Get(rs, roomId).players, playerId)
  THEN "undefined"
  ELSE LET room == Get(rs, roomId)
           player == Get(room.players, playerId)
           newTeam == switchTeamTarget(player, targetTeam)
           teamCount == Count(room.players, newTeam)
       IN IF player.team = newTeam THEN "success"
          ELSE IF teamCount >= room.settings.teamSize THEN "Team full"
          ELSE "success"

switchTeam(rs, roomId, playerId, targetTeam) ==
  IF switchTeamResult(rs, roomId, playerId, targetTeam) # "success" THEN rs
  ELSE LET room == Get(rs, roomId)
           player == Get(room.players, playerId)
           newTeam == switchTeamTarget(player, targetTeam)
       IN PutRoom(rs, [room EXCEPT !.players =
                         PutPlayer(@, [player EXCEPT !.team = newTeam])])

\* result.newHostId, or <<>> when leaveRoom returns nothing
leaveRoomNewHost(rs, roomId, playerId) ==
  IF ~Has(rs, roomId) THEN Undefined
  ELSE LET room == Get(rs, roomId)
           rest == Delete(room.players, playerId)
       IN IF Len(rest) = 0 THEN Undefined
          ELSE IF room.hostId = playerId THEN Some(Keys(rest)[1])
          ELSE Undefined

\* leaveRoom leaving hostId as it was when the host goes
leaveRoomKeepsHostId(rs, roomId, playerId) ==
  IF ~Has(rs, roomId) THEN rs
  ELSE LET room == Get(rs, roomId)
           rest == Delete(room.players, playerId)
       IN IF Len(rest) = 0 THEN Delete(rs, roomId)
          ELSE PutRoom(rs, [room EXCEPT !.players = rest])

\* leaveRoom promoting the last remaining player instead of the first
leaveRoomPromotesLast(rs, roomId, playerId) ==
  IF ~Has(rs, roomId) THEN rs
  ELSE LET room == Get(rs, roomId)
           rest == Delete(room.players, playerId)
       IN IF Len(rest) = 0 THEN Delete(rs, roomId)
          ELSE IF room.hostId = playerId
          THEN LET nextPlayerId == Keys(rest)[Len(rest)]
               IN PutRoom(rs, [room EXCEPT
                    !.hostId = nextPlayerId,
                    !.players = PutPlayer(rest,
                       [Get(rest, nextPlayerId) EXCEPT !.isHost = TRUE])])
          ELSE PutRoom(rs, [room EXCEPT !.players = rest])

\* leaveRoom without the removal of a room left empty
leaveRoomKeepsEmpty(rs, roomId, playerId) ==
  IF ~Has(rs, roomId) THEN rs
  ELSE LET room == Get(rs, roomId)
           rest == Delete(room.players, playerId)
       IN IF Len(rest) > 0 /\ room.hostId = playerId
          THEN LET nextPlayerId == Keys(rest)[1]
               IN PutRoom(rs, [room EXCEPT
                    !.hostId = nextPlayerId,
                    !.players = PutPlayer(rest,
                       [Get(rest, nextPlayerId) EXCEPT !.isHost = TRUE])])
          ELSE PutRoom(rs, [room EXCEPT !.players = rest])

leaveRoom(rs, roomId, playerId) ==
  IF ~Has(rs, roomId) THEN rs
  ELSE LET room == Get(rs, roomId)
           rest == Delete(room.players, playerId)
       IN IF Len(rest) = 0 THEN Delete(rs, roomId)
          ELSE IF room.hostId = playerId
          THEN LET nextPlayerId == Keys(rest)[1]
               IN PutRoom(rs, [room EXCEPT
                    !.hostId = nextPlayerId,
                    !.players = PutPlayer(rest,
                       [Get(rest, nextPlayerId) EXCEPT !.isHost = TRUE])])
          ELSE PutRoom(rs, [room EXCEPT !.players = rest])

\* Object.values(this.rooms).find(...): the first room holding the player,
\* as a sequence of length 0 (undefined) or 1
getPlayerRoom(rs, playerId) ==
  LET found == SelectSeq(rs, LAMBDA r : Has(r.players, playerId))
  IN IF found = <<>> THEN Undefined ELSE Some(found[1])

getRoomEntities(rs, roomId) ==
  IF ~Has(rs, roomId) THEN <<>> ELSE Get(rs, roomId).players

\* ------------------------------------------------------ GameStateManager
\* the fields the constructor sets, timers as pending or not
GameStateManager ==
  [currentState |-> "menu",
   stateBeforePause |-> Undefined,
   playerScore |-> 0,
   botScore |-> 0,
   pendingRoundTimer |-> FALSE,
   pendingMatchEndTimer |-> FALSE]

setState(g, newState) == [g EXCEPT !.currentState = newState]

clearPendingTimers(g) ==
  [g EXCEPT !.pendingRoundTimer = FALSE, !.pendingMatchEndTimer = FALSE]

\* the setTimeout of endRound and of resume: match end or next round
roundEndDelay(g) ==
  IF g.playerScore >= ROUNDS_TO_WIN \/ g.botScore >= ROUNDS_TO_WIN
  THEN [g EXCEPT !.pendingMatchEndTimer = TRUE]
  ELSE [g EXCEPT !.pendingRoundTimer = TRUE]

startRound(g) == setState(g, "countdown")

startMatch(g) == startRound([g EXCEPT !.playerScore = 0, !.botScore = 0])

endRound(g, winner) ==
  LET scored == IF winner = "BLUE" THEN [g EXCEPT !.playerScore = @ + 1]
                ELSE IF winner = "RED" THEN [g EXCEPT !.botScore = @ + 1]
                ELSE g
  IN roundEndDelay(clearPendingTimers(setState(scored, "round_end")))

endMatch(g) == setState(g, "match_end")

pause(g) ==
  IF g.currentState \in {"playing", "countdown", "round_end"}
  THEN setState(clearPendingTimers(
                  [g EXCEPT !.stateBeforePause = Some(g.currentState)]),
                "paused")
  ELSE g

resume(g) ==
  IF g.currentState = "paused"
  THEN LET targetState == IF TruthyStr(g.stateBeforePause)
                          THEN g.stateBeforePause[1] ELSE "playing"
           resumed == setState(g, targetState)
       IN IF targetState = "round_end" THEN roundEndDelay(resumed)
          ELSE resumed
  ELSE g

returnToMenu(g) == setState(clearPendingTimers(g), "menu")

\* data.scores written over the manager's scores
WithScores(g, scores) ==
  [g EXCEPT !.playerScore = scores.blue, !.botScore = scores.red]

\* ---------------------------------------------------------------- server
Init ==
  /\ rooms = <<>>
  /\ sockets = {}
  /\ closed = {}
  /\ subs = [s \in SocketIds |-> {}]
  /\ out = <<>>
  /\ last = [ev |-> "none", id |-> 0, arg |-> Undefined]
  /\ handled = 0
  /\ gsm = GameStateManager

Emit(to, ev, data) == [ev |-> ev, to |-> to, data |-> data]

\* connected sockets subscribed to a socket.io room under subscriptions sb
InRoom(sb, roomId) == {x \in sockets : roomId \in sb[x]}

\* a connected socket's event reaches its handler
Handle(ev, s, arg) ==
  /\ s \in sockets
  /\ handled < MaxEvents
  /\ handled' = handled + 1
  /\ last' = [ev |-> ev, id |-> s, arg |-> arg]
  /\ UNCHANGED gsm

\* socket.io hands out a fresh id per connection; ids are taken in order
connection(s) ==
  /\ s \notin sockets \cup closed
  /\ \A t \in SocketIds : t < s => t \in sockets \cup closed
  /\ sockets' = sockets \cup {s}
  /\ out' = <<>>
  /\ last' = [ev |-> "connection", id |-> s, arg |-> Undefined]
  /\ UNCHANGED <<rooms, closed, subs, handled, gsm>>

create_room(s, settings, digits) ==
  LET roomId == generateRoomId(digits)
      rs == createRoom(rooms, roomId, s, settings)
      room == Get(rs, roomId)
  IN /\ Handle("create_room", s, settings)
     /\ rooms' = rs
     /\ subs' = [subs EXCEPT ![s] = @ \cup {roomId}]
     /\ out' = << Emit({s}, "player_role", [isHost |-> TRUE]),
                  Emit({s}, "current_players", room.players),
                  Emit({s}, "callback", [success |-> TRUE, roomId |-> roomId]) >>
     /\ UNCHANGED <<sockets, closed>>

join_room(s, roomId) ==
  LET error == joinRoomError(rooms, roomId)
      rs == joinRoom(rooms, roomId, s)
      sb == [subs EXCEPT ![s] = @ \cup {roomId}]
  IN /\ Handle("join_room", s, roomId)
     /\ IF error # Undefined
        THEN /\ out' = << Emit({s}, "callback",
                            [success |-> FALSE, error |-> error[1]]) >>
             /\ UNCHANGED <<rooms, subs>>
        ELSE LET room == Get(rs, roomId)
             IN /\ rooms' = rs
                /\ subs' = sb
                /\ out' = << Emit(InRoom(sb, roomId) \ {s}, "player_joined",
                                  Get(room.players, s)),
                             Emit({s}, "current_players", room.players),
                             Emit({s}, "player_role", [isHost |-> FALSE]),
                             Emit({s}, "callback",
                                  [success |-> TRUE, room |-> room]) >>
     /\ UNCHANGED <<sockets, closed>>

\* update_room_settings without the comparison of room.hostId with socket.id
update_room_settingsFromAnyMember(s, settings) ==
  LET found == getPlayerRoom(rooms, s)
  IN /\ Handle("update_room_settings", s, settings)
     /\ IF found = Undefined
        THEN /\ out' = <<>>
             /\ UNCHANGED rooms
        ELSE LET rs == updateSettings(rooms, found[1].id, settings)
             IN /\ rooms' = rs
                /\ out' = << Emit(InRoom(subs, found[1].id),
                                  "room_settings_updated",
                                  Get(rs, found[1].id).settings) >>
     /\ UNCHANGED <<sockets, closed, subs>>

update_room_settings(s, settings) ==
  LET found == getPlayerRoom(rooms, s)
  IN /\ Handle("update_room_settings", s, settings)
     /\ IF found = Undefined \/ found[1].hostId # s
        THEN /\ out' = <<>>
             /\ UNCHANGED rooms
        ELSE LET rs == updateSettings(rooms, found[1].id, settings)
             IN /\ rooms' = rs
                /\ out' = << Emit(InRoom(subs, found[1].id),
                                  "room_settings_updated",
                                  Get(rs, found[1].id).settings) >>
     /\ UNCHANGED <<sockets, closed, subs>>

switch_team(s, teamId) ==
  LET found == getPlayerRoom(rooms, s)
  IN /\ Handle("switch_team", s, teamId)
     /\ IF found = Undefined
        THEN /\ out' = << Emit({s}, "callback",
                            [success |-> FALSE, error |-> "No room"]) >>
             /\ UNCHANGED rooms
        ELSE LET roomId == found[1].id
                 result == switchTeamResult(rooms, roomId, s, teamId)
                 rs == switchTeam(rooms, roomId, s, teamId)
             IN /\ rooms' = rs
                /\ IF result = "success"
                   THEN out' = << Emit(InRoom(subs, roomId),
                                       "player_team_changed",
                                       Get(Get(rs, roomId).players, s)),
                                  Emit(InRoom(subs, roomId), "current_players",
                                       Get(rs, roomId).players),
                                  Emit({s}, "callback", [success |-> TRUE]) >>
                   ELSE out' = << Emit({s}, "callback",
                                    [success |-> FALSE,
                                     error |-> IF result = "undefined"
                                               THEN "Failed" ELSE result]) >>
     /\ UNCHANGED <<sockets, closed, subs>>

\* start_game without the comparison of room.hostId with socket.id
start_gameFromAnyMember(s) ==
  LET found == getPlayerRoom(rooms, s)
  IN /\ Handle("start_game", s, Undefined)
     /\ IF found # Undefined
        THEN LET rs == PutRoom(rooms, [found[1] EXCEPT !.gameState = "PLAYING"])
             IN /\ rooms' = rs
                /\ out' = << Emit(InRoom(subs, found[1].id), "game_started",
                                  [entities |->
                                     getRoomEntities(rs, found[1].id)]) >>
        ELSE /\ out' = <<>>
             /\ UNCHANGED rooms
     /\ UNCHANGED <<sockets, closed, subs>>

start_game(s) ==
  LET found == getPlayerRoom(rooms, s)
  IN /\ Handle("start_game", s, Undefined)
     /\ IF found # Undefined /\ found[1].hostId = s
        THEN LET rs == PutRoom(rooms, [found[1] EXCEPT !.gameState = "PLAYING"])
             IN /\ rooms' = rs
                /\ out' = << Emit(InRoom(subs, found[1].id), "game_started",
                                  [entities |->
                                     getRoomEntities(rs, found[1].id)]) >>
        ELSE /\ out' = <<>>
             /\ UNCHANGED rooms
     /\ UNCHANGED <<sockets, closed, subs>>

\* disconnect announcing the new host before the departure
disconnectHostChangedFirst(s) ==
  LET found == getPlayerRoom(rooms, s)
      sb == [subs EXCEPT ![s] = {}]
      live == sockets \ {s}
      listeners(roomId) == {x \in live : roomId \in sb[x]}
  IN /\ sockets' = live
     /\ closed' = closed \cup {s}
     /\ subs' = sb
     /\ Handle("disconnect", s, Undefined)
     /\ IF found = Undefined
        THEN /\ out' = <<>>
             /\ UNCHANGED rooms
        ELSE LET roomId == found[1].id
                 newHostId == leaveRoomNewHost(rooms, roomId, s)
             IN /\ rooms' = leaveRoom(rooms, roomId, s)
                /\ out' =
                     (IF TruthyNum(newHostId)
                      THEN << Emit(live \cap {newHostId[1]}, "player_role",
                                   [isHost |-> TRUE]),
                              Emit(listeners(roomId), "host_changed",
                                   [hostId |-> newHostId[1]]) >>
                      ELSE <<>>)
                     \o << Emit(listeners(roomId), "player_disconnected", s) >>

\* a connected socket's in-game message reaches its handler; the handlers of
\* these messages only forward, so they take nothing of the event budget
Relay(ev, s, data) ==
  /\ s \in sockets
  /\ last' = [ev |-> ev, id |-> s, arg |-> data]
  /\ UNCHANGED <<rooms, sockets, closed, subs, handled, gsm>>

\* round_state without the comparison of room.hostId with socket.id
round_stateFromAnyMember(s, data) ==
  LET found == getPlayerRoom(rooms, s)
  IN /\ Relay("round_state", s, data)
     /\ out' = IF found # Undefined
               THEN << Emit(InRoom(subs, found[1].id) \ {s},
                            "round_state", data) >>
               ELSE <<>>

\* socket.to(room.id) reaches the subscribers of the room but the sender
round_state(s, data) ==
  LET found == getPlayerRoom(rooms, s)
  IN /\ Relay("round_state", s, data)
     /\ out' = IF found # Undefined /\ found[1].hostId = s
               THEN << Emit(InRoom(subs, found[1].id) \ {s},
                            "round_state", data) >>
               ELSE <<>>

player_hit(s, data) ==
  LET found == getPlayerRoom(rooms, s)
  IN /\ Relay("player_hit", s, data)
     /\ out' = IF found # Undefined /\ found[1].hostId = s
               THEN << Emit(InRoom(subs, found[1].id) \ {s},
                            "player_hit", data) >>
               ELSE <<>>

\* { ...data, playerId: socket.id }
WithPlayerId(data, s) ==
  [f \in DOMAIN data \cup {"playerId"} |->
     IF f = "playerId" THEN s ELSE data[f]]

\* io.sockets.sockets.get(room.hostId) finds connected sockets only
deflect_attempt(s, data) ==
  LET found == getPlayerRoom(rooms, s)
  IN /\ Relay("deflect_attempt", s, data)
     /\ out' = IF found # Undefined /\ found[1].hostId \in sockets
               THEN << Emit({found[1].hostId}, "deflect_attempt",
                            WithPlayerId(data, s)) >>
               ELSE <<>>

\* { id: socket.id, ...movementData }: a field id of the data comes last
WithId(data, s) ==
  [f \in DOMAIN data \cup {"id"} |-> IF f \in DOMAIN data THEN data[f] ELSE s]

\* socket.to(room.id).emit(ev, data) when the sender is in a room
ToRoomOf(s, ev, data) ==
  LET found == getPlayerRoom(rooms, s)
  IN IF found # Undefined
     THEN << Emit(InRoom(subs, found[1].id) \ {s}, ev, data) >>
     ELSE <<>>

player_move(s, movementData) ==
  /\ Relay("player_move", s, movementData)
  /\ out' = ToRoomOf(s, "player_moved", WithId(movementData, s))

missile_update(s, data) ==
  /\ Relay("missile_update", s, data)
  /\ out' = ToRoomOf(s, "missile_update", data)

missile_deflected(s, data) ==
  /\ Relay("missile_deflected", s, data)
  /\ out' = ToRoomOf(s, "missile_deflected", data)

\* the socket has left its socket.io rooms and io.sockets.sockets by the
\* time the "disconnect" event fires
disconnect(s) ==
  LET found == getPlayerRoom(rooms, s)
      sb == [subs EXCEPT ![s] = {}]
      live == sockets \ {s}
      listeners(roomId) == {x \in live : roomId \in sb[x]}
  IN /\ sockets' = live
     /\ closed' = closed \cup {s}
     /\ subs' = sb
     /\ Handle("disconnect", s, Undefined)
     /\ IF found = Undefined
        THEN /\ out' = <<>>
             /\ UNCHANGED rooms
        ELSE LET roomId == found[1].id
                 newHostId == leaveRoomNewHost(rooms, roomId, s)
             IN /\ rooms' = leaveRoom(rooms, roomId, s)
                /\ out' =
                     << Emit(listeners(roomId), "player_disconnected", s) >>
                     \o (IF TruthyNum(newHostId)
                         THEN << Emit(live \cap {newHostId[1]}, "player_role",
                                      [isHost |-> TRUE]),
                                 Emit(listeners(roomId), "host_changed",
                                      [hostId |-> newHostId[1]]) >>
                         ELSE <<>>)

\* every handler, with room codes drawn from pool and maps from maps
NextOver(pool, maps) ==
  \/ \E s \in SocketIds : connection(s)
  \/ \E s \in SocketIds, st \in SettingsInputs(maps), i \in 1..Len(pool) :
       create_room(s, st, pool[i])
  \/ \E s \in SocketIds, c \in RoomCodes(pool) : join_room(s, c)
  \/ \E s \in SocketIds, st \in SettingsInputs(maps) :
       update_room_settings(s, st)
  \/ \E s \in SocketIds, t \in TeamIdInputs : switch_team(s, t)
  \/ \E s \in SocketIds : start_game(s)
  \/ \E s \in SocketIds : disconnect(s)

\* one room code in use, maps left to their default
Next == NextOver(RepeatPool, {Undefined})

Spec == Init /\ [][Next]_vars

\* two room codes, one of them an array-index key
NextRooms == NextOver(RandomPool, {Undefined})

SpecRooms == Init /\ [][NextRooms]_vars

\* create_room, join_room and disconnect only, with both maps
NextJoinLeave ==
  \/ \E s \in SocketIds : connection(s)
  \/ \E s \in SocketIds, st \in SettingsInputs(MapInputs),
        i \in 1..Len(RepeatPool) : create_room(s, st, RepeatPool[i])
  \/ \E s \in SocketIds, c \in RoomCodes(RepeatPool) : join_room(s, c)
  \/ \E s \in SocketIds : disconnect(s)

SpecJoinLeave == Init /\ [][NextJoinLeave]_vars

\* create_room, join_room and switch_team with any teamId a client can send
NextTeams ==
  \/ \E s \in SocketIds : connection(s)
  \/ \E s \in SocketIds, st \in SettingsInputs({Undefined}),
        i \in 1..Len(RepeatPool) : create_room(s, st, RepeatPool[i])
  \/ \E s \in SocketIds, c \in RoomCodes(RepeatPool) : join_room(s, c)
  \/ \E s \in SocketIds, t \in TeamLabelInputs : switch_team(s, t)

SpecTeams == Init /\ [][NextTeams]_vars

\* settings as the lobby form sends them: a team size of 1 or more, or
\* none, and either map or none
FormInputs ==
  {st \in SettingsInputs(MapInputs) :
     st.teamSize = Undefined \/ st.teamSize[1] >= 1}

\* rooms made, joined, reconfigured and started, with both maps
NextSettings ==
  \/ \E s \in SocketIds : connection(s)
  \/ \E s \in SocketIds, st \in FormInputs, i \in 1..Len(RepeatPool) :
       create_room(s, st, RepeatPool[i])
  \/ \E s \in SocketIds, c \in RoomCodes(RepeatPool) : join_room(s, c)
  \/ \E s \in SocketIds, st \in FormInputs : update_room_settings(s, st)
  \/ \E s \in SocketIds : start_game(s)

SpecSettings == Init /\ [][NextSettings]_vars

\* rooms made, joined and left, and the host-only messages of a game
NextRelay ==
  \/ \E s \in SocketIds : connection(s)
  \/ \E s \in SocketIds, st \in SettingsInputs({Undefined}),
        i \in 1..Len(RepeatPool) : create_room(s, st, RepeatPool[i])
  \/ \E s \in SocketIds, c \in RoomCodes(RepeatPool) : join_room(s, c)
  \/ \E s \in SocketIds : disconnect(s)
  \/ \E s \in SocketIds, d \in RoundStateInputs : round_state(s, d)
  \/ \E s \in SocketIds, d \in PlayerHitInputs : player_hit(s, d)

SpecRelay == Init /\ [][NextRelay]_vars

\* rooms made under two codes, joined and left, and deflect attempts
NextDeflect ==
  \/ \E s \in SocketIds : connection(s)
  \/ \E s \in SocketIds, st \in SettingsInputs({Undefined}),
        i \in 1..Len(RandomPool) : create_room(s, st, RandomPool[i])
  \/ \E s \in SocketIds, c \in RoomCodes(RandomPool) : join_room(s, c)
  \/ \E s \in SocketIds : disconnect(s)
  \/ \E s \in SocketIds, d \in DeflectInputs : deflect_attempt(s, d)

SpecDeflect == Init /\ [][NextDeflect]_vars

\* rooms made, joined and left, and the messages any player may send in game
NextMoves ==
  \/ \E s \in SocketIds : connection(s)
  \/ \E s \in SocketIds, st \in SettingsInputs({Undefined}),
        i \in 1..Len(RepeatPool) : create_room(s, st, RepeatPool[i])
  \/ \E s \in SocketIds, c \in RoomCodes(RepeatPool) : join_room(s, c)
  \/ \E s \in SocketIds : disconnect(s)
  \/ \E s \in SocketIds, d \in MoveInputs : player_move(s, d)
  \/ \E s \in SocketIds, d \in MissileInputs : missile_update(s, d)
  \/ \E s \in SocketIds, d \in DeflectedInputs : missile_deflected(s, d)

SpecMoves == Init /\ [][NextMoves]_vars

\* ------------------------------------------------------------ client
\* a call on the client's GameStateManager leaves it as g
Call(ev, arg, g) ==
  /\ gsm' = g
  /\ last' = [ev |-> ev, id |-> 0, arg |-> arg]
  /\ UNCHANGED <<rooms, sockets, closed, subs, out, handled>>

\* a match is started from the menu or after a match
startGame ==
  /\ gsm.currentState \in {"menu", "match_end"}
  /\ Call("startMatch", Undefined, startMatch(gsm))

\* the frame in which stateTimer reaches 3
updateCountdown ==
  /\ gsm.currentState = "countdown"
  /\ Call("updateCountdown", Undefined, setState(gsm, "playing"))

\* a team is wiped out in the local simulation
checkRoundEnd(winner) ==
  /\ gsm.currentState = "playing"
  /\ Call("endRound", Some(winner), endRound(gsm, winner))

\* the host's round_state of type round_end, handled in whatever state
onRoundState(data) ==
  Call("onRoundState", data,
       WithScores(endRound(WithScores(gsm, data.scores), data.winner),
                  data.scores))

pendingRoundTimerFires ==
  /\ gsm.pendingRoundTimer
  /\ Call("pendingRoundTimer", Undefined,
          startRound([gsm EXCEPT !.pendingRoundTimer = FALSE]))

pendingMatchEndTimerFires ==
  /\ gsm.pendingMatchEndTimer
  /\ Call("pendingMatchEndTimer", Undefined,
          endMatch([gsm EXCEPT !.pendingMatchEndTimer = FALSE]))

pauseGame ==
  /\ gsm.currentState \notin {"menu", "paused", "match_end"}
  /\ Call("pause", Undefined, pause(gsm))

resumeGame ==
  /\ gsm.currentState = "paused"
  /\ Call("resume", Undefined, resume(gsm))

quitToMenu == Call("returnToMenu", Undefined, returnToMenu(gsm))

NextClient ==
  \/ startGame
  \/ updateCountdown
  \/ \E winner \in {"BLUE", "RED"} : checkRoundEnd(winner)
  \/ \E data \in RoundEndInputs : onRoundState(data)
  \/ pendingRoundTimerFires
  \/ pendingMatchEndTimerFires
  \/ pauseGame
  \/ resumeGame
  \/ quitToMenu

SpecClient == Init /\ [][NextClient]_vars

\* ------------------------------------------------------------ properties
HasMsg(o, ev) == \E i \in 1..Len(o) : o[i].ev = ev

\* what the last handler passed to the callback, its last message
Reply(o) == o[Len(o)].data

\* the last handler answered with the error e
RepliedError(o, e) ==
  /\ Len(o) > 0
  /\ o[Len(o)].ev = "callback"
  /\ ~Reply(o).success
  /\ Reply(o).error = e

Hosts(room) == {i \in 1..Len(room.players) : room.players[i].isHost}

\* C1: over create_room, join_room and disconnect, the number of entries of
\* room.players is never above room.settings.maxPlayers (nor negative).
C1_CountWithinMaxPlayers ==
  \A i \in 1..Len(rooms) :
    /\ Len(rooms[i].players) >= 0
    /\ Len(rooms[i].players) <= rooms[i].settings.maxPlayers

\* C2: every room with a member has exactly one member whose isHost is true,
\* and that member is room.hostId.
C2_ExactlyOneHost ==
  \A i \in 1..Len(rooms) :
    Len(rooms[i].players) >= 1 =>
      /\ Cardinality(Hosts(rooms[i])) = 1
      /\ \A j \in Hosts(rooms[i]) : rooms[i].players[j].id = rooms[i].hostId

\* the room the disconnect handler of s acts on, and who stays in it
LeftRoom(s) == getPlayerRoom(rooms, s)[1]

Remaining(s) == Delete(LeftRoom(s).players, s)

HostNotice(o, id) ==
  \E i \in 1..Len(o) : o[i].ev = "host_changed" /\ o[i].data.hostId = id

C3_Succession ==
  \A s \in sockets :
    (/\ last'.ev = "disconnect"
     /\ last'.id = s
     /\ getPlayerRoom(rooms, s) # Undefined
     /\ Len(Remaining(s)) > 0) =>
       /\ Has(rooms', LeftRoom(s).id)
       /\ IF LeftRoom(s).hostId = s
          THEN /\ Get(rooms', LeftRoom(s).id).hostId = Remaining(s)[1].id
               /\ Get(Get(rooms', LeftRoom(s).id).players,
                      Remaining(s)[1].id).isHost
               /\ HostNotice(out', Remaining(s)[1].id)
          ELSE /\ Get(rooms', LeftRoom(s).id).hostId = LeftRoom(s).hostId
               /\ ~HasMsg(out', "host_changed")
               /\ ~HasMsg(out', "player_role")

HostIsMember ==
  \A i \in 1..Len(rooms) : Has(rooms[i].players, rooms[i].hostId)

\* C3: when the host leaves a room that keeps members, the first remaining
\* player in insertion order becomes hostId with isHost true and is announced
\* as the new host; when another member leaves, hostId stays and no new host
\* is announced; hostId is always a member of its room.
C3_HostSuccession == []HostIsMember /\ [][C3_Succession]_vars

\* a host has left a room of three and the first of the two others took over
C3_Witness ==
  /\ last.ev = "disconnect"
  /\ HasMsg(out, "host_changed")
  /\ \E i \in 1..Len(rooms) :
       /\ Len(rooms[i].players) = 2
       /\ rooms[i].players[1].id = rooms[i].hostId

\* C4: no room of the registry has an empty players map, and the room that
\* create_room answers with holds its creator.
C4_NoEmptyRoom ==
  /\ \A i \in 1..Len(rooms) : Len(rooms[i].players) > 0
  /\ last.ev = "create_room" =>
       /\ Has(rooms, Reply(out).roomId)
       /\ Has(Get(rooms, Reply(out).roomId).players, last.id)

\* the last member of a room has left and the room is gone
C4_Witness ==
  /\ last.ev = "disconnect"
  /\ HasMsg(out, "player_disconnected")
  /\ rooms = <<>>

\* C5: right after switch_team, join_room or update_room_settings, neither
\* team of a room holds more than settings.teamSize players (stated for the
\* rooms whose teamSize is a valid size, 1 or more).
C5_TeamsWithinSize ==
  last.ev \in {"switch_team", "join_room", "update_room_settings"} =>
    \A i \in 1..Len(rooms) :
      rooms[i].settings.teamSize >= 1 =>
        /\ Count(rooms[i].players, "BLUE") <= rooms[i].settings.teamSize
        /\ Count(rooms[i].players, "RED") <= rooms[i].settings.teamSize

\* C6: a socket id is a key of room.players in at most one room.
C6_AtMostOneRoom ==
  \A s \in SocketIds :
    Cardinality({i \in 1..Len(rooms) : Has(rooms[i].players, s)}) <= 1

\* C7: create_room leaves every room that was in the registry as it was.
C7_CreateKeepsRooms ==
  [][last'.ev = "create_room" =>
       \A i \in 1..Len(rooms) :
         /\ Has(rooms', rooms[i].id)
         /\ Get(rooms', rooms[i].id) = rooms[i]]_vars

\* C8: create_room with a teamSize below 1 is answered with a failure and
\* adds no room.
C8_RejectsSmallTeamSize ==
  [][(/\ last'.ev = "create_room"
      /\ last'.arg.teamSize # Undefined
      /\ last'.arg.teamSize[1] < 1) =>
        /\ rooms' = rooms
        /\ ~Reply(out').success]_vars

MaxPlayersDerived ==
  \A i \in 1..Len(rooms) :
    rooms[i].settings.maxPlayers = 2 * rooms[i].settings.teamSize

\* the settings getRoom returns for the room create_room has just made
Created == Get(rooms, Reply(out).roomId).settings

\* C9: every room has maxPlayers = 2 * teamSize; the settings of a room just
\* created have teamSize 1 when none was given and the default map when none
\* was given.
C9_MaxPlayersIsTwiceTeamSize ==
  /\ MaxPlayersDerived
  /\ last.ev = "create_room" =>
       /\ last.arg.teamSize = Undefined => Created.teamSize = 1
       /\ last.arg.teamSize # Undefined /\ last.arg.teamSize[1] # 0 =>
            Created.teamSize = last.arg.teamSize[1]
       /\ last.arg.map = Undefined => Created.map = "orbital"

\* the host's settings update has lowered the team size of a room of three
C9_Witness ==
  /\ last.ev = "update_room_settings"
  /\ HasMsg(out, "room_settings_updated")
  /\ \E i \in 1..Len(rooms) :
       /\ rooms[i].hostId = last.id
       /\ rooms[i].settings.teamSize = 1
       /\ rooms[i].settings.maxPlayers = 2
       /\ Len(rooms[i].players) = 3

C10_Step ==
  /\ (/\ last'.ev = "join_room"
      /\ Has(rooms, last'.arg)
      /\ Get(rooms, last'.arg).gameState = "PLAYING") =>
        /\ RepliedError(out', "Game already started")
        /\ rooms' = rooms
  /\ \A i \in 1..Len(rooms) :
       (/\ rooms[i].gameState = "PLAYING"
        /\ Has(rooms', rooms[i].id)
        /\ Get(rooms', rooms[i].id).gameState = "PLAYING") =>
          KeySet(Get(rooms', rooms[i].id).players) \subseteq
            KeySet(rooms[i].players)

\* C10: a join_room for a room that is PLAYING is answered "Game already
\* started" and adds nobody; a room that is PLAYING gains no member.
C10_NoJoinAfterStart == [][C10_Step]_vars

\* a join_room has been refused because the game had started
C10_Witness ==
  /\ last.ev = "join_room"
  /\ RepliedError(out, "Game already started")
  /\ \E i \in 1..Len(rooms) :
       rooms[i].gameState = "PLAYING" /\ ~Has(rooms[i].players, last.id)

\* the only message of o is the callback's failure e, sent to s alone
OnlyReplyError(o, s, e) ==
  o = << Emit({s}, "callback", [success |-> FALSE, error |-> e]) >>

C11_Step ==
  (/\ last'.ev = "join_room"
   /\ Has(rooms, last'.arg)
   /\ Get(rooms, last'.arg).gameState = "LOBBY"
   /\ Len(Get(rooms, last'.arg).players) >=
        Get(rooms, last'.arg).settings.maxPlayers) =>
     /\ OnlyReplyError(out', last'.id, "Room full")
     /\ rooms' = rooms
     /\ subs' = subs

\* C11: a join_room on a LOBBY room holding maxPlayers players or more is
\* answered "Room full" to the requester alone; the registry (players, teams,
\* host, settings) and the subscriptions stay as they were and nothing else
\* is sent.
C11_RoomFull == [][C11_Step]_vars

\* a third socket has been refused by a full room of two it is not part of
C11_Witness ==
  /\ last.ev = "join_room"
  /\ RepliedError(out, "Room full")
  /\ Has(rooms, last.arg)
  /\ Get(rooms, last.arg).gameState = "LOBBY"
  /\ Len(Get(rooms, last.arg).players) = 2
  /\ Get(rooms, last.arg).settings.maxPlayers = 2
  /\ ~Has(Get(rooms, last.arg).players, last.id)
  /\ last.arg \notin subs[last.id]

\* the team of player s in room roomId of registry rs
TeamOf(rs, roomId, s) == Get(Get(rs, roomId).players, s).team

\* t is the team with strictly fewer players in ps, or BLUE when level
FewerOrBlue(ps, t) ==
  /\ Count(ps, "BLUE") < Count(ps, "RED") => t = "BLUE"
  /\ Count(ps, "RED") < Count(ps, "BLUE") => t = "RED"
  /\ Count(ps, "BLUE") = Count(ps, "RED") => t = "BLUE"

C12_Step ==
  /\ last'.ev = "create_room" =>
       TeamOf(rooms', Reply(out').roomId, last'.id) = "BLUE"
  /\ (last'.ev = "join_room" /\ Reply(out').success) =>
       FewerOrBlue(Get(rooms, last'.arg).players,
                   TeamOf(rooms', last'.arg, last'.id))

\* C12: the player createRoom or joinRoom adds is put on the team that had
\* strictly fewer players when it was added, and on BLUE when both had as
\* many; the creator of a room is on BLUE.
C12_JoinsSmallerTeam == [][C12_Step]_vars

\* three players have come in turn and stand BLUE, RED, BLUE
C12_Witness ==
  /\ last.ev = "join_room"
  /\ Reply(out).success
  /\ Len(Get(rooms, last.arg).players) = 3
  /\ Get(rooms, last.arg).players[1].team = "BLUE"
  /\ Get(rooms, last.arg).players[2].team = "RED"
  /\ Get(rooms, last.arg).players[3].team = "BLUE"
  /\ Get(rooms, last.arg).players[3].id = last.id

\* the room a handler run for socket s acts on
RoomOf(rs, s) == getPlayerRoom(rs, s)[1]

Opposite(team) == IF team = "BLUE" THEN "RED" ELSE "BLUE"

\* registry rs with nothing changed but the team of player s of room, now t
WithTeam(rs, room, s, t) ==
  PutRoom(rs, [room EXCEPT !.players =
                 PutPlayer(@, [Get(@, s) EXCEPT !.team = t])])

C13_Step ==
  \A s \in sockets :
    (/\ last'.ev = "switch_team"
     /\ last'.id = s
     /\ getPlayerRoom(rooms, s) # Undefined) =>
       LET room == RoomOf(rooms, s)
           team == TeamOf(rooms, room.id, s)
           dest == IF last'.arg = Undefined
                   THEN Opposite(team) ELSE last'.arg[1]
           full == Count(room.players, dest) >= room.settings.teamSize
       IN /\ Has(rooms', room.id)
          /\ Has(Get(rooms', room.id).players, s)
          /\ rooms' = WithTeam(rooms, room, s, TeamOf(rooms', room.id, s))
          /\ (dest # team /\ full) =>
               /\ OnlyReplyError(out', s, "Team full")
               /\ rooms' = rooms
          /\ (last'.arg = Undefined /\ ~full) =>
               /\ Reply(out').success
               /\ TeamOf(rooms', room.id, s) = Opposite(team)

\* C13: switch_team changes nothing of the registry but, at most, the team
\* of the calling player: membership, hostId, isHost, settings, gameState and
\* the other players stay; a move to a team that already holds teamSize
\* players is answered "Team full" and changes nothing; with no target the
\* player goes to the opposite team when that team has room.
C13_SwitchChangesOnlyOwnTeam == [][C13_Step]_vars

\* the second of two players has toggled from RED to a BLUE team with room
C13_Witness ==
  /\ last.ev = "switch_team"
  /\ last.arg = Undefined
  /\ Reply(out).success
  /\ getPlayerRoom(rooms, last.id) # Undefined
  /\ Len(RoomOf(rooms, last.id).players) = 2
  /\ RoomOf(rooms, last.id).settings.teamSize = 2
  /\ Count(RoomOf(rooms, last.id).players, "BLUE") = 2
  /\ RoomOf(rooms, last.id).hostId # last.id

C14_Step ==
  \A s \in sockets :
    (/\ last'.ev = "switch_team"
     /\ last'.id = s
     /\ getPlayerRoom(rooms, s) # Undefined
     /\ last'.arg # Undefined
     /\ last'.arg[1] = TeamOf(rooms, RoomOf(rooms, s).id, s)) =>
       /\ Reply(out').success
       /\ rooms' = rooms

\* C14: a switch_team naming the team the player is already on succeeds and
\* leaves the registry as it was, whether or not that team is full; so the
\* same request twice leaves what one leaves.
C14_SwitchToOwnTeam == [][C14_Step]_vars

\* the creator of a room of team size 1, alone on BLUE, asks for BLUE as its
\* first request after create_room
C14_Witness ==
  /\ handled = 2
  /\ last.ev = "switch_team"
  /\ last.arg = Some("BLUE")
  /\ Reply(out).success
  /\ getPlayerRoom(rooms, last.id) # Undefined
  /\ RoomOf(rooms, last.id).settings.teamSize = 1
  /\ Count(RoomOf(rooms, last.id).players, "BLUE") = 1

\* C15: the team of every player of every room is BLUE or RED, whatever
\* teamId the switch_team requests carried.
C15_TeamIsBlueOrRed ==
  \A i \in 1..Len(rooms) :
    \A j \in 1..Len(rooms[i].players) :
      rooms[i].players[j].team \in {"BLUE", "RED"}

\* the players of room whose socket is among the connected sockets live
Members(room, live) == KeySet(room.players) \cap live

\* socket s is in a room and is its hostId
IsHostOfOwnRoom(rs, s) ==
  getPlayerRoom(rs, s) # Undefined /\ RoomOf(rs, s).hostId = s

\* o is one message ev carrying data, sent to everybody in set all
OneBroadcast(o, ev, data, all) ==
  /\ Len(o) = 1
  /\ o[1].ev = ev
  /\ o[1].data = data
  /\ all \subseteq o[1].to

C16_Step ==
  \A s \in sockets :
    (last'.ev = "update_room_settings" /\ last'.id = s) =>
      IF IsHostOfOwnRoom(rooms, s)
      THEN OneBroadcast(out', "room_settings_updated",
                        Get(rooms', RoomOf(rooms, s).id).settings,
                        Members(RoomOf(rooms, s), sockets) \cup {s})
      ELSE rooms' = rooms /\ out' = <<>>

\* C16: an update_room_settings from a socket that is not the hostId of its
\* room, or is in no room, changes nothing of the registry and sends nothing;
\* from the host it sends room_settings_updated, with the room's new
\* settings, to every connected member of the room, the host included.
C16_OnlyHostUpdatesSettings == [][C16_Step]_vars

\* a member that is not the host has asked for another team size in vain
C16_Witness ==
  /\ last.ev = "update_room_settings"
  /\ out = <<>>
  /\ getPlayerRoom(rooms, last.id) # Undefined
  /\ RoomOf(rooms, last.id).hostId # last.id
  /\ last.arg.teamSize = Some(MaxTeamSize)
  /\ RoomOf(rooms, last.id).settings.teamSize = 1

C17_Step ==
  \A s \in sockets :
    (/\ last'.ev = "update_room_settings"
     /\ last'.id = s
     /\ IsHostOfOwnRoom(rooms, s)) =>
       LET room == RoomOf(rooms, s)
           updated == Get(rooms', room.id)
       IN /\ last'.arg.teamSize = Undefined =>
               /\ updated.settings.teamSize = room.settings.teamSize
               /\ updated.settings.maxPlayers = room.settings.maxPlayers
          /\ last'.arg.map = Undefined =>
               updated.settings.map = room.settings.map
          /\ Keys(updated.players) = Keys(room.players)
          /\ updated.hostId = room.hostId
          /\ updated.gameState = room.gameState
          /\ \A i \in 1..Len(rooms) :
               rooms[i].id # room.id =>
                 Has(rooms', rooms[i].id) /\ Get(rooms', rooms[i].id) = rooms[i]

\* C17: updateSettings leaves teamSize and maxPlayers as they were when the
\* request has no teamSize, and the map as it was when the request has no
\* map; it never changes who is in the room, hostId or gameState.
C17_MissingFieldsKept == [][C17_Step]_vars

\* the host of a started gladiator room has changed the team size alone
C17_Witness ==
  /\ last.ev = "update_room_settings"
  /\ HasMsg(out, "room_settings_updated")
  /\ last.arg.map = Undefined
  /\ last.arg.teamSize = Some(MaxTeamSize)
  /\ RoomOf(rooms, last.id).settings.map = "gladiator"
  /\ RoomOf(rooms, last.id).settings.teamSize = MaxTeamSize
  /\ RoomOf(rooms, last.id).gameState = "PLAYING"

C18_Step ==
  \A s \in sockets :
    (last'.ev = "start_game" /\ last'.id = s) =>
      IF IsHostOfOwnRoom(rooms, s)
      THEN LET room == RoomOf(rooms, s)
           IN /\ rooms' = PutRoom(rooms, [room EXCEPT !.gameState = "PLAYING"])
              /\ Len(out') = 1
              /\ out'[1].ev = "game_started"
              /\ KeySet(out'[1].data.entities) = KeySet(room.players)
              /\ \A i \in 1..Len(room.players) :
                   Get(out'[1].data.entities, room.players[i].id) =
                     room.players[i]
              /\ Members(room, sockets) \cup {s} \subseteq out'[1].to
      ELSE rooms' = rooms /\ out' = <<>>

\* C18: a start_game from the hostId of the sender's room sets that room to
\* PLAYING, changing nothing else, and sends one game_started, whose entities
\* are exactly the room's players, to every connected member, the host
\* included; from any other socket it changes nothing and sends nothing.
C18_OnlyHostStartsGame == [][C18_Step]_vars

\* the host of a room of two or more has started the game
C18_Witness ==
  /\ last.ev = "start_game"
  /\ HasMsg(out, "game_started")
  /\ RoomOf(rooms, last.id).gameState = "PLAYING"
  /\ RoomOf(rooms, last.id).hostId = last.id
  /\ Len(RoomOf(rooms, last.id).players) >= 2
  /\ Len(out[1].data.entities) = Len(RoomOf(rooms, last.id).players)

\* message i of o is ev carrying data and reaches everybody in set all
SentTo(o, i, ev, data, all) ==
  /\ o[i].ev = ev
  /\ o[i].data = data
  /\ all \subseteq o[i].to

C19_Step ==
  \A s \in sockets :
    (/\ last'.ev = "disconnect"
     /\ last'.id = s
     /\ getPlayerRoom(rooms, s) # Undefined
     /\ Len(Remaining(s)) > 0) =>
       LET others == Members([players |-> Remaining(s)], sockets')
           newHostId == Remaining(s)[1].id
       IN IF LeftRoom(s).hostId = s
          THEN /\ \E i, j \in 1..Len(out') :
                    /\ i < j
                    /\ SentTo(out', i, "player_disconnected", s, others)
                    /\ SentTo(out', j, "host_changed",
                              [hostId |-> newHostId], others)
               /\ \E k \in 1..Len(out') :
                    /\ SentTo(out', k, "player_role", [isHost |-> TRUE],
                              {newHostId} \cap sockets')
                    /\ out'[k].to \subseteq {newHostId}
               /\ \A i, j \in 1..Len(out') :
                    (out'[i].ev = "host_changed" /\
                     out'[j].ev = "player_disconnected") => j < i
          ELSE /\ Len(out') = 1
               /\ SentTo(out', 1, "player_disconnected", s, others)

C20_Step ==
  \A s \in sockets :
    (last'.ev \in {"round_state", "player_hit"} /\ last'.id = s) =>
      /\ rooms' = rooms
      /\ IF IsHostOfOwnRoom(rooms, s)
         THEN /\ OneBroadcast(out', last'.ev, last'.arg,
                              Members(RoomOf(rooms, s), sockets) \ {s})
              /\ s \notin out'[1].to
         ELSE out' = <<>>

C21_Step ==
  \A s \in sockets :
    (/\ last'.ev = "deflect_attempt"
     /\ last'.id = s
     /\ getPlayerRoom(rooms, s) # Undefined) =>
       /\ Len(out') = 1
       /\ out'[1].ev = "deflect_attempt"
       /\ out'[1].to = {RoomOf(rooms, s).hostId}
       /\ out'[1].data.playerId = s

\* C21: a deflect_attempt from a member of a room is sent once, to the socket
\* that is the room's hostId when it is handled and to nobody else, with
\* playerId set to the sender's id.
C21_DeflectGoesToHost == [][C21_Step]_vars

\* the event the server sends on for a client's event
Forwarded(ev) == IF ev = "player_move" THEN "player_moved" ELSE ev

C22_Step ==
  \A s \in sockets :
    (/\ last'.ev \in {"player_move", "missile_update", "missile_deflected"}
     /\ last'.id = s) =>
       IF getPlayerRoom(rooms, s) # Undefined
       THEN /\ Len(out') = 1
            /\ out'[1].ev = Forwarded(last'.ev)
            /\ out'[1].to = Members(RoomOf(rooms, s), sockets) \ {s}
       ELSE out' = <<>>

\* C22: a player_move, missile_update or missile_deflected from a member of
\* a room is sent to the other connected members of that room, not to the
\* sender and to no socket that is not a member; from a socket in no room
\* nothing is sent.
C22_MovesStayInRoom == [][C22_Step]_vars

\* the room codes that are not in the registry
MissingCodes == RoomCodes(RandomPool) \ KeySet(rooms)

\* the four operations of RoomManager on a code that is not in the registry
MissingRoomNoOp ==
  \A c \in MissingCodes, s \in SocketIds :
    /\ joinRoomError(rooms, c) = Some("Room not found")
    /\ joinRoom(rooms, c, s) = rooms
    /\ \A st \in SettingsInputs(MapInputs) : updateSettings(rooms, c, st) = rooms
    /\ \A t \in TeamLabelInputs :
         /\ switchTeamResult(rooms, c, s, t) = "undefined"
         /\ switchTeam(rooms, c, s, t) = rooms
    /\ leaveRoomNewHost(rooms, c, s) = Undefined
    /\ leaveRoom(rooms, c, s) = rooms

C23_Step ==
  (last'.ev = "join_room" /\ ~Has(rooms, last'.arg)) =>
    /\ OnlyReplyError(out', last'.id, "Room not found")
    /\ rooms' = rooms
    /\ subs' = subs

C24_Step ==
  last'.ev \in {"switch_team", "update_room_settings", "join_room"} =>
    \A i \in 1..Len(rooms) :
      rooms[i].gameState = "PLAYING" =>
        /\ Has(rooms', rooms[i].id)
        /\ Get(rooms', rooms[i].id).players = rooms[i].players
        /\ Get(rooms', rooms[i].id).settings = rooms[i].settings

\* C24: while a room is PLAYING, no switch_team, update_room_settings or
\* join_room changes its players (membership and teams) or its settings.
C24_FrozenWhilePlaying == [][C24_Step]_vars

\* neither team of ps is above teamSize while the other is below it
Settled(ps, teamSize) ==
  /\ ~(Count(ps, "BLUE") > teamSize /\ Count(ps, "RED") < teamSize)
  /\ ~(Count(ps, "RED") > teamSize /\ Count(ps, "BLUE") < teamSize)

\* player after is player before, or before moved off a team of ps that was
\* above teamSize to the other team
KeptOrMoved(ps, before, after, teamSize) ==
  \/ after = before
  \/ /\ after = [before EXCEPT !.team = Opposite(before.team)]
     /\ Count(ps, before.team) > teamSize

C25_Step ==
  \A s \in sockets :
    (/\ last'.ev = "update_room_settings"
     /\ last'.id = s
     /\ IsHostOfOwnRoom(rooms, s)) =>
       LET room == RoomOf(rooms, s)
           updated == Get(rooms', room.id)
       IN /\ Settled(updated.players, updated.settings.teamSize)
          /\ Len(updated.players) = Len(room.players)
          /\ \A j \in 1..Len(room.players) :
               KeptOrMoved(room.players, room.players[j], updated.players[j],
                           updated.settings.teamSize)

\* C25: when updateSettings has run, no team of the room is above teamSize
\* while the other is below it; of the players it changed only the team
\* field, and only for players of a team that was above the new teamSize,
\* who are now on the other team.
C25_Rebalanced == [][C25_Step]_vars

\* the host has set the team size of a room of two to 1 and stands on RED
\* against the other player on BLUE
C25_Witness ==
  /\ last.ev = "update_room_settings"
  /\ last.arg.teamSize = Some(1)
  /\ IsHostOfOwnRoom(rooms, last.id)
  /\ RoomOf(rooms, last.id).settings.teamSize = 1
  /\ Len(RoomOf(rooms, last.id).players) = 2
  /\ RoomOf(rooms, last.id).players[1] =
       [id |-> last.id, team |-> "RED", isHost |-> TRUE]
  /\ RoomOf(rooms, last.id).players[2].team = "BLUE"

\* the team sizes a room can be given
TeamSizes == {t[1] : t \in TeamSizeInputs \ {Undefined}}

\* how many times the two loops of rebalanceTeams(room) run: what the first
\* adds to red and the second adds to blue
RebalanceMoves(room) ==
  LET teamSize == room.settings.teamSize
      blue == Keys(SelectSeq(room.players, LAMBDA p : p.team = "BLUE"))
      red == Keys(SelectSeq(room.players, LAMBDA p : p.team = "RED"))
      first == moveBlue(room.players, blue, red, teamSize)
      second == moveRed(first.players, first.blue, first.red, teamSize)
  IN (Len(first.red) - Len(red)) + (Len(second.blue) - Len(first.blue))

Resized(room, t) == [room EXCEPT !.settings.teamSize = t]

\* C26: for every room of the registry and every team size, rebalanceTeams
\* ends having moved at most teamSize players (none for a team size below
\* 1), and the players it returns are the room's players.
C26_RebalanceBounded ==
  \A i \in 1..Len(rooms), t \in TeamSizes :
    /\ RebalanceMoves(Resized(rooms[i], t)) >= 0
    /\ RebalanceMoves(Resized(rooms[i], t)) <= (IF t > 0 THEN t ELSE 0)
    /\ Keys(rebalanceTeams(Resized(rooms[i], t))) = Keys(rooms[i].players)

\* a room with both players on one team: at team size 1 rebalanceTeams
\* moves one of them
C26_Witness ==
  \E i \in 1..Len(rooms) :
    /\ Len(rooms[i].players) = 2
    /\ Count(rooms[i].players, "RED") = 2
    /\ RebalanceMoves(Resized(rooms[i], 1)) = 1
    /\ Count(rebalanceTeams(Resized(rooms[i], 1)), "BLUE") = 1

\* C27: every key of every room's players is a connected socket, so a socket
\* that has disconnected is a member of no room, and with no socket connected
\* the registry is empty.
C27_MembersAreConnected ==
  /\ \A i \in 1..Len(rooms) : KeySet(rooms[i].players) \subseteq sockets
  /\ sockets = {} => rooms = <<>>

\* C28: right after update_room_settings no room holds more players than its
\* settings.maxPlayers (stated for the rooms whose teamSize is a valid size,
\* 1 or more).
C28_CountWithinMaxAfterUpdate ==
  last.ev = "update_room_settings" =>
    \A i \in 1..Len(rooms) :
      rooms[i].settings.teamSize >= 1 =>
        Len(rooms[i].players) <= rooms[i].settings.maxPlayers

\* C29: the hostId of every room of the registry is a key of that room's
\* players, after create_room, join_room, switch_team, update_room_settings,
\* start_game and disconnect alike.
C29_HostIsAMember ==
  \A i \in 1..Len(rooms) :
    rooms[i].hostId \in KeySet(rooms[i].players)

\* the host of a started room has left and the room, still PLAYING, has one
\* of the others as hostId
C29_Witness ==
  /\ last.ev = "disconnect"
  /\ \E i \in 1..Len(rooms) :
       /\ rooms[i].gameState = "PLAYING"
       /\ rooms[i].hostId # last.id
       /\ rooms[i].hostId \in KeySet(rooms[i].players)
       /\ HostNotice(out, rooms[i].hostId)

NoTimerWhilePaused ==
  gsm.currentState = "paused" =>
    ~gsm.pendingRoundTimer /\ ~gsm.pendingMatchEndTimer

C30_Step ==
  (gsm.currentState = "paused" /\ gsm'.currentState # "paused") =>
    \/ last'.ev = "returnToMenu" /\ gsm'.currentState = "menu"
    \/ /\ last'.ev = "resume"
       /\ gsm'.currentState \in {"playing", "countdown", "round_end"}
       /\ gsm'.currentState = gsm.stateBeforePause[1]

\* C30: while the GameStateManager is PAUSED neither timer is pending, and
\* the state leaves PAUSED only by resume(), to the state held before the
\* pause (PLAYING, COUNTDOWN or ROUND_END), or by returnToMenu().
C30_PausedUntilResumed == []NoTimerWhilePaused /\ [][C30_Step]_vars

====
